---- MODULE Spec2Model ----
(***************************************************************************)
(* ResumeAI: the batch orchestrator of App (handleBatchAnalyze and the     *)
(* handlers that share its state) and the localStorage history service     *)
(* (saveSession, getHistory, deleteSession, clearHistory).                 *)
(*                                                                         *)
(* Spec      the App component: user events, the async batch run, storage  *)
(* SpecHist  the history service called directly, on bounded inputs        *)
(***************************************************************************)
EXTENDS Integers, Sequences, FiniteSets, TLC

(* ---- bounds ---- *)
MaxId == 3          \* generateId draws from 1..MaxId
MaxFiles == 3       \* longest candidate list built in the App
MaxTime == 0        \* Date.now() ranges over StartTime..StartTime + MaxTime
MaxHist == 1        \* nothing is submitted once the drawer lists MaxHist sessions saved since the page was loaded
MaxItems == 2       \* longest item list handed to saveSession directly
MaxCalls == 1       \* direct service calls per behaviour of SpecHist
MaxSvcCalls == 2    \* direct calls of the Gemini service per behaviour of SpecSvc
MaxDrop == 3        \* most files in one drop or selection

(* ---- program constants ---- *)
MaxSessions == 20

(* ---- JavaScript values ---- *)
\* null, undefined and a missing localStorage entry are records, so that they
\* compare with the objects that can stand in the same place
NULL == [t |-> "null"]
UNDEF == [t |-> "undefined"]
ABSENT == [t |-> "absent"]

\* truthiness of a value that is null, undefined or an object
Truthy(v) == v # NULL /\ v # UNDEF

Ids == 1..MaxId
Scores == {60, 81}
Titles == {"T1"}
Descriptions == {"", "D1"}
API_KEY_MISSING == "API_KEY_MISSING"
NO_TEXT == "NO_TEXT"
SYNTAX_ERROR == "SYNTAX_ERROR"
PROVIDER_ERROR == "PROVIDER_ERROR"

Take(s, n) == SubSeq(s, 1, IF Len(s) < n THEN Len(s) ELSE n)

\* Math.floor in place of Math.round
MathRound_floor(total, n) == total \div n

\* Math.round(total / n) for total >= 0, n > 0: halves round up
MathRound(total, n) == (2 * total + n) \div (2 * n)

\* Number.prototype.toString / Date.now().toString(): the decimal text of n
NumToString(n) == [str |-> n]

(* ---- numbers and their decimal text ---- *)
\* a temperature is a number of tenths or NaN
NaN == [nan |-> TRUE]
Num(k) == [tenths |-> k]
Tenths == -3..17
IsNaN(x) == x = NaN

\* Math.min and Math.max with a constant: NaN stays NaN
MathMin(c, x) == IF IsNaN(x) THEN NaN ELSE IF x.tenths < c THEN x ELSE Num(c)
MathMax(c, x) == IF IsNaN(x) THEN NaN ELSE IF x.tenths > c THEN x ELSE Num(c)

\* the decimal text of k tenths with one digit after the point
DecimalText(k) ==
  IF k < 0 THEN "-" \o ToString((0 - k) \div 10) \o "." \o ToString((0 - k) % 10)
  ELSE ToString(k \div 10) \o "." \o ToString(k % 10)

\* Number.prototype.toFixed(1)
toFixed1(x) == IF IsNaN(x) THEN "NaN" ELSE DecimalText(x.tenths)

\* parseFloat: the number a text starts with, NaN when it starts with none
parseFloat(text) ==
  IF \E k \in Tenths : DecimalText(k) = text
  THEN Num(CHOOSE k \in Tenths : DecimalText(k) = text)
  ELSE NaN

\* the texts a gemini_temperature entry is found with
TempTexts == {"", "abc", "-0.3", "0.4", "1.7"}

(* ---- JSON ---- *)
\* JSON.stringify keeps every property of a file and of a batch item (none is
\* ever undefined) and drops the properties of a session whose value is
\* undefined (headcount); the stored text is represented by the value it
\* denotes, JSON.parse gives that value back.
JsonSession(s) == [k \in {f \in DOMAIN s : f # "headcount" \/ s[f] # UNDEF} |-> s[k]]
JSONstringify(history) == [json |-> [k \in 1..Len(history) |-> JsonSession(history[k])]]
JSONparse(text) == text.json

\* a property read: a missing headcount reads as undefined
Headcount(s) == IF "headcount" \in DOMAIN s THEN s.headcount ELSE UNDEF

(* ---- history service (services/historyService.ts) ---- *)
\* the filter without its "&& i.result"
completedItems_statusOnly(items) ==
  SelectSeq(items, LAMBDA it : it.status = "completed")

\* items.filter(i => i.status === 'completed' && i.result)
completedItems(items) ==
  SelectSeq(items, LAMBDA it : it.status = "completed" /\ Truthy(it.result))

\* curr.result?.score || 0
ScoreOf(result) ==
  IF Truthy(result) /\ "score" \in DOMAIN result THEN result.score ELSE 0

\* completedItems.reduce((acc, curr) => acc + (curr.result?.score || 0), 0)
RECURSIVE totalScore(_)
totalScore(items) ==
  IF items = <<>> THEN 0 ELSE ScoreOf(Head(items).result) + totalScore(Tail(items))

averageScore(items) ==
  MathRound(totalScore(completedItems(items)), Len(completedItems(items)))

\* the session object built by saveSession at time t
NewSession(job, items, t) ==
  [id |-> NumToString(t), timestamp |-> t,
   jobTitle |-> job.title, jobDescription |-> job.description,
   headcount |-> UNDEF, items |-> items,
   totalCandidates |-> Len(items), averageScore |-> averageScore(items)]

\* the history slot as getHistory reads it
getHistory(storage) ==
  IF storage.resume_ai_history_v1 = ABSENT THEN <<>>
  ELSE JSONparse(storage.resume_ai_history_v1)

\* the list without its slice(0, 20)
newHistory_uncapped(session, existingHistory) == <<session>> \o existingHistory

\* [session, ...existingHistory].slice(0, 20)
newHistory(session, existingHistory) ==
  Take(<<session>> \o existingHistory, MaxSessions)

\* the item copied without blanking its content
lightItem_keepContent(item) == item

\* { ...item, file: { ...item.file, content: '' } }
lightItem(item) == [item EXCEPT !.file = [item.file EXCEPT !.content = ""]]

\* { ...session, items: session.items.map(...) }
lightSession(session) ==
  [session EXCEPT !.items = [k \in 1..Len(session.items) |-> lightItem(session.items[k])]]

\* saveSession whose outer catch removes the history entry
saveSession_clearsOnFailure(job, items, storage, t, w1, w2) ==
  IF Len(completedItems(items)) = 0
  THEN [ret |-> NULL, storage |-> storage, write |-> "none"]
  ELSE LET session == NewSession(job, items, t)
           existingHistory == getHistory(storage)
       IN IF w1
          THEN [ret |-> session,
                storage |-> [storage EXCEPT !.resume_ai_history_v1 =
                               JSONstringify(newHistory(session, existingHistory))],
                write |-> "full"]
          ELSE IF w2
          THEN [ret |-> session,
                storage |-> [storage EXCEPT !.resume_ai_history_v1 =
                               JSONstringify(newHistory(lightSession(session), existingHistory))],
                write |-> "light"]
          ELSE [ret |-> NULL,
                storage |-> [storage EXCEPT !.resume_ai_history_v1 = ABSENT],
                write |-> "failed"]

\* saveSession(job, items) at time t; w1 and w2 tell whether the full write and
\* the content-stripped write fit in the storage quota.  The result gives the
\* returned value, the storage afterwards and which write was stored.
saveSession(job, items, storage, t, w1, w2) ==
  IF Len(completedItems(items)) = 0
  THEN [ret |-> NULL, storage |-> storage, write |-> "none"]
  ELSE LET session == NewSession(job, items, t)
           existingHistory == getHistory(storage)
       IN IF w1
          THEN [ret |-> session,
                storage |-> [storage EXCEPT !.resume_ai_history_v1 =
                               JSONstringify(newHistory(session, existingHistory))],
                write |-> "full"]
          ELSE IF w2
          THEN [ret |-> session,
                storage |-> [storage EXCEPT !.resume_ai_history_v1 =
                               JSONstringify(newHistory(lightSession(session), existingHistory))],
                write |-> "light"]
          ELSE [ret |-> NULL, storage |-> storage, write |-> "failed"]

\* localStorage.removeItem(STORAGE_KEY)
clearHistory(storage) == [storage EXCEPT !.resume_ai_history_v1 = ABSENT]

\* deleteSession that returns the filtered list without writing it
deleteSession_notWritten(id, storage) ==
  LET newHist == SelectSeq(getHistory(storage), LAMBDA s : s.id # id)
  IN [ret |-> newHist, storage |-> storage]

\* deleteSession(id): the returned list and the storage afterwards
deleteSession(id, storage) ==
  LET newHist == SelectSeq(getHistory(storage), LAMBDA s : s.id # id)
  IN [ret |-> newHist,
      storage |-> [storage EXCEPT !.resume_ai_history_v1 = JSONstringify(newHist)]]

(* ---- credential and temperature (services/geminiService.ts, types.ts) ---- *)
\* a localStorage entry as a condition: null and the empty text are falsy
StoredTruthy(entry) == entry # ABSENT /\ entry.value # ""

\* getTemperature: storedTemp ? Math.max(0, Math.min(1, parseFloat(storedTemp))) : 0.4
getTemperature(storage) ==
  IF StoredTruthy(storage.gemini_temperature)
  THEN MathMax(0, MathMin(10, parseFloat(storage.gemini_temperature.value)))
  ELSE Num(4)

\* getAIClient without its check
getAIClient_unchecked(storage) == TRUE

\* getAIClient: TRUE when it returns a client, FALSE when it throws
\* API_KEY_MISSING
getAIClient(storage) == StoredTruthy(storage.gemini_api_key)

\* ApiKeyModal, the effect on isOpen: the slider's value when the dialog opens
ModalTemperature(storage) ==
  IF StoredTruthy(storage.gemini_temperature)
  THEN MathMax(0, MathMin(10, parseFloat(storage.gemini_temperature.value)))
  ELSE Num(4)

(* ---- state ---- *)
VARIABLES
  files,            \* App: the candidate list
  jobContext,       \* App: the job title and description being edited
  batchItems,       \* App: the displayed batch items
  isProcessing,     \* App
  currentView,      \* App: "input", "list" or "detail"
  selectedDetailId, \* App
  isHistoryOpen,    \* App: the history drawer covers the page
  historySessions,  \* App: the sessions the drawer lists
  isSettingsOpen,   \* App: the settings dialog covers the page
  hasApiKey,        \* App
  pc,               \* handleBatchAnalyze: "await" while suspended at the await
                    \* of line 123; "aborted" when it has just returned at line
                    \* 136, "done" when it has just returned after line 155;
                    \* "idle" otherwise
  i,                \* handleBatchAnalyze: the loop index, counted from 1
  initialItems,     \* handleBatchAnalyze: const initialItems
  processedItems,   \* handleBatchAnalyze: let processedItems
  runJob,           \* handleBatchAnalyze: the jobContext its closure captured
  requests,         \* the generateContent requests the run has issued
  localStorage,     \* the browser's localStorage: one entry per key
  saveLog,          \* the saveSession calls made since the last event of the
                    \* App: arguments and outcome
  temperature,      \* ApiKeyModal: the slider's value
  answer,           \* what the provider did with the request answered in this
                    \* step; NoAnswer in every other step
  callLog,          \* the direct calls of a service: arguments, outcome
                    \* and the requests sent
  fileList,         \* processFiles: the files dropped or selected
  closureFiles,     \* processFiles: the files prop its closure captured
  newFiles,         \* processFiles: const newFiles
  processedCount,   \* processFiles: let processedCount
  readers           \* processFiles: the positions in fileList whose FileReader
                    \* has not fired onload

uiVars == <<files, jobContext, currentView, selectedDetailId, isHistoryOpen>>
locals == <<i, initialItems, processedItems, runJob, requests>>
runVars == <<batchItems, isProcessing, isSettingsOpen, hasApiKey, pc, locals>>
appVars == <<uiVars, runVars, historySessions, temperature, answer>>
uploadVars == <<fileList, closureFiles, newFiles, processedCount, readers>>
partVars == <<callLog, uploadVars>>
vars == <<appVars, localStorage, saveLog, partVars>>

\* the clock starts late enough for MaxSessions earlier saves
StartTime == MaxSessions

NoAnswer == [kind |-> "none"]

emptyStorage ==
  [gemini_api_key |-> ABSENT, gemini_temperature |-> ABSENT,
   resume_ai_history_v1 |-> ABSENT]

\* a candidate file and the batch items the service can be handed
TextFile(id, name) == [id |-> id, type |-> "text", content |-> "c", name |-> name]
IdleItem(f) == [file |-> f, status |-> "idle", result |-> NULL]
AnalyzingItem(f) == [file |-> f, status |-> "analyzing", result |-> NULL]
CompletedItem(f, result) == [file |-> f, status |-> "completed", result |-> result]
ErrorItem(f, msg) == [file |-> f, status |-> "error", result |-> NULL, error |-> msg]

\* what JSON.parse can return for a provider payload that parses
Results == {[score |-> sc] : sc \in Scores} \cup {NULL}

ItemsFor(f) ==
  {IdleItem(f), AnalyzingItem(f), ErrorItem(f, PROVIDER_ERROR)}
    \cup {CompletedItem(f, r) : r \in Results}

ItemLists ==
  UNION {{il \in [1..n -> UNION {ItemsFor(TextFile(k, k)) : k \in 1..n}] :
            \A k \in 1..n : il[k].file.id = k} : n \in 0..MaxItems}

\* the storage after n full saves made at times t-n+1 .. t
RECURSIVE StoredAfter(_, _)
StoredAfter(n, t) ==
  IF n = 0 THEN emptyStorage
  ELSE saveSession([title |-> "T1", description |-> "D1"],
                   <<CompletedItem(TextFile(1, 1), [score |-> 60])>>,
                   StoredAfter(n - 1, t - 1), t, TRUE, TRUE).storage

LogEntry(job, items, t, r) ==
  [job |-> job, items |-> items, t |-> t, ret |-> r.ret, write |-> r.write]

(* ---- App (unnamed/part_000) ---- *)
\* what the component holds once mounted on the given storage
Mounted(storage) ==
  /\ files = <<>>
  /\ jobContext = [title |-> "", description |-> ""]
  /\ batchItems = <<>>
  /\ isProcessing = FALSE
  /\ currentView = "input"
  /\ selectedDetailId = NULL
  /\ isHistoryOpen = FALSE
  /\ historySessions = getHistory(storage)
  /\ isSettingsOpen = (storage.gemini_api_key = ABSENT)
  /\ hasApiKey = (storage.gemini_api_key # ABSENT)
  /\ pc = "idle"
  /\ i = 0
  /\ initialItems = <<>>
  /\ processedItems = <<>>
  /\ runJob = [title |-> "", description |-> ""]
  /\ requests = <<>>
  /\ temperature = ModalTemperature(storage)
  /\ answer = NoAnswer
  /\ callLog = <<>>
  /\ fileList = <<>>
  /\ closureFiles = <<>>
  /\ newFiles = <<>>
  /\ processedCount = 0
  /\ readers = {}

\* the sessions of the list that were saved since the page was loaded
SavedHere(sessions) ==
  Cardinality({k \in 1..Len(sessions) : sessions[k].timestamp >= StartTime})

\* the page is loaded on the storage an earlier visit left: the temperature the
\* dialog saved, a key or none, no session or one
Init ==
  /\ localStorage \in
       {[gemini_api_key |-> k, gemini_temperature |-> [value |-> "0.4"],
         resume_ai_history_v1 |-> StoredAfter(n, StartTime - 1).resume_ai_history_v1] :
          k \in {ABSENT, [value |-> "KEY"]}, n \in {0, 1}}
  /\ Mounted(localStorage)
  /\ saveLog = <<>>

\* the dialogs are fixed full-page overlays: the settings dialog lies over the
\* history drawer, the drawer over the page
Front == ~isSettingsOpen /\ ~isHistoryOpen
InDrawer == isHistoryOpen /\ ~isSettingsOpen

\* an event other than the run's own steps: a run that has returned is over,
\* a suspended one stays suspended
Settle ==
  /\ pc' = IF pc = "await" THEN "await" ELSE "idle"
  /\ saveLog' = <<>>
  /\ answer' = NoAnswer
  /\ UNCHANGED <<locals, partVars>>

\* Date.now(): the clock never runs backwards, so a reading is not before any
\* timestamp already stored
DateNow(storage) ==
  {t \in StartTime..(StartTime + MaxTime) :
     \A k \in 1..Len(getHistory(storage)) : getHistory(storage)[k].timestamp <= t}

(* ---- ResumeUploader and JobInput, as far as they feed the App ---- *)
\* generateId() is a random draw, and ids are only ever compared for equality:
\* the draw is an id already held by one of the files, or the least id that no
\* file holds (any other new id gives the same run with the ids renamed)
generateId(held) ==
  {id \in Ids : \A smaller \in 1..(id - 1) :
                  \E k \in 1..Len(held) : held[k].id = smaller}

\* handlePasteSubmit: textInput is non-blank
handlePasteSubmit ==
  /\ Front /\ currentView = "input"
  /\ Len(files) < MaxFiles /\ SavedHere(historySessions) < MaxHist
  /\ \E id \in generateId(files) :
       files' = Append(files, [id |-> id, type |-> "text", content |-> "c",
                               name |-> Len(files) + 1])
  /\ Settle
  /\ UNCHANGED <<jobContext, currentView, selectedDetailId, isHistoryOpen,
                 batchItems, isProcessing, isSettingsOpen, hasApiKey, historySessions, localStorage>>
  /\ UNCHANGED temperature

\* the two inputs of JobInput
handleJobChange ==
  /\ Front /\ currentView = "input"
  /\ SavedHere(historySessions) < MaxHist
  /\ \/ \E t \in Titles : jobContext' = [jobContext EXCEPT !.title = t]
     \/ \E d \in Descriptions : jobContext' = [jobContext EXCEPT !.description = d]
  /\ Settle
  /\ UNCHANGED <<files, currentView, selectedDetailId, isHistoryOpen,
                 batchItems, isProcessing, isSettingsOpen, hasApiKey, historySessions, localStorage>>
  /\ UNCHANGED temperature

(* ---- analyzeResume (services/geminiService.ts) ---- *)
\* what the provider call can do: throw, or return a response whose text is
\* empty, is not JSON, or is JSON
AllProviderResponses ==
  {[kind |-> "throws"], [kind |-> "empty"], [kind |-> "invalid"]}
    \cup {[kind |-> "json", value |-> v] : v \in Results}

\* the responses the batch run is driven with
ProviderResponses ==
  {[kind |-> "throws"]} \cup {[kind |-> "json", value |-> v] : v \in {[score |-> 60], NULL}}

\* lines 152-173: the value analyzeResume resolves with, or the message of the
\* error it rejects with
analyzeResume(resp) ==
  CASE resp.kind = "throws" -> [ok |-> FALSE, message |-> PROVIDER_ERROR]
    [] resp.kind = "empty" -> [ok |-> FALSE, message |-> NO_TEXT]
    [] resp.kind = "invalid" -> [ok |-> FALSE, message |-> SYNTAX_ERROR]
    [] resp.kind = "json" -> [ok |-> TRUE, result |-> resp.value]

\* the request a service function hands to generateContent
Request(op, file, storage) ==
  [op |-> op, file |-> file, temperature |-> getTemperature(storage)]

KeyMissing == [ok |-> FALSE, message |-> API_KEY_MISSING, sent |-> <<>>]

\* lines 111-174: analyzeResume as a whole, on the storage it finds and the
\* provider's answer; sent lists the requests it issued
analyzeResumeCall(file, job, storage, resp) ==
  IF ~getAIClient(storage) THEN KeyMissing
  ELSE [k \in DOMAIN analyzeResume(resp) \cup {"sent"} |->
          IF k = "sent" THEN <<Request("analyze", file, storage)>>
          ELSE analyzeResume(resp)[k]]

\* lines 176-247: generateInterviewPlan, which handles the answer as
\* analyzeResume does
generateInterviewPlanCall(file, job, storage, resp) ==
  IF ~getAIClient(storage) THEN KeyMissing
  ELSE [k \in DOMAIN analyzeResume(resp) \cup {"sent"} |->
          IF k = "sent" THEN <<Request("plan", file, storage)>>
          ELSE analyzeResume(resp)[k]]

\* response.text
ResponseText(resp) ==
  CASE resp.kind = "empty" -> ""
    [] resp.kind = "invalid" -> "{"
    [] resp.kind = "json" -> "json"

NO_TEXT_EXTRACTED == "NO_TEXT_EXTRACTED"

\* lines 253-289: extractResumeRawText
extractResumeRawTextCall(file, storage, resp) ==
  IF ~getAIClient(storage) THEN KeyMissing
  ELSE IF file.type = "text"
  THEN [ok |-> TRUE, value |-> file.content, sent |-> <<>>]
  ELSE IF resp.kind = "throws"
  THEN [ok |-> FALSE, message |-> PROVIDER_ERROR,
        sent |-> <<Request("extract", file, storage)>>]
  ELSE [ok |-> TRUE,
        value |-> IF ResponseText(resp) # "" THEN ResponseText(resp) ELSE NO_TEXT_EXTRACTED,
        sent |-> <<Request("extract", file, storage)>>]

(* ---- handleBatchAnalyze ---- *)
\* prev.map(p => p.file.id === id ? { ...p, status: 'analyzing' } : p)
MarkAnalyzing(prev, id) ==
  [k \in 1..Len(prev) |->
     IF prev[k].file.id = id THEN [prev[k] EXCEPT !.status = "analyzing"] ELSE prev[k]]

\* prev.map(p => p.file.id === id ? item : p)
ReplaceItem(prev, id, item) ==
  [k \in 1..Len(prev) |-> IF prev[k].file.id = id THEN item ELSE prev[k]]

\* the catch branch with a break in place of its return: the code after the
\* loop saves the items processed so far
Abort_thenSave(k, items0, job, shown, processed, reqs, log) ==
  /\ batchItems' = shown
  /\ isProcessing' = FALSE
  /\ isSettingsOpen' = TRUE
  /\ temperature' = IF isSettingsOpen THEN temperature ELSE ModalTemperature(localStorage)
  /\ hasApiKey' = FALSE
  /\ pc' = "aborted"
  /\ i' = 0
  /\ initialItems' = <<>>
  /\ processedItems' = <<>>
  /\ runJob' = [title |-> "", description |-> ""]
  /\ requests' = <<>>
  /\ \E t \in DateNow(localStorage) :
       LET saved == saveSession(job, processed, localStorage, t, TRUE, TRUE)
       IN /\ localStorage' = saved.storage
          /\ saveLog' = Append(log, LogEntry(job, processed, t, saved))
          /\ historySessions' = IF Truthy(saved.ret)
                                THEN <<saved.ret>> \o historySessions
                                ELSE historySessions

\* the catch branch without its setIsProcessing(false)
Abort_staysProcessing(k, items0, job, shown, processed, reqs, log) ==
  /\ batchItems' = shown
  /\ isProcessing' = TRUE
  /\ isSettingsOpen' = TRUE
  /\ temperature' = IF isSettingsOpen THEN temperature ELSE ModalTemperature(localStorage)
  /\ hasApiKey' = FALSE
  /\ pc' = "aborted"
  /\ i' = 0
  /\ initialItems' = <<>>
  /\ processedItems' = <<>>
  /\ runJob' = [title |-> "", description |-> ""]
  /\ requests' = <<>>
  /\ saveLog' = log
  /\ UNCHANGED <<historySessions, localStorage>>

\* lines 131-136: the catch branch for API_KEY_MISSING at item k; the handler
\* returns and its locals are gone
Abort(k, items0, job, shown, processed, reqs, log) ==
  /\ batchItems' = shown
  /\ isProcessing' = FALSE
  /\ isSettingsOpen' = TRUE
  /\ temperature' = IF isSettingsOpen THEN temperature ELSE ModalTemperature(localStorage)
  /\ hasApiKey' = FALSE
  /\ pc' = "aborted"
  /\ i' = 0
  /\ initialItems' = <<>>
  /\ processedItems' = <<>>
  /\ runJob' = [title |-> "", description |-> ""]
  /\ requests' = <<>>
  /\ saveLog' = log
  /\ UNCHANGED <<historySessions, localStorage>>

\* the code after the loop handing initialItems to saveSession
Finish_savesInitial(k, items0, job, shown, processed, reqs, log) ==
  /\ batchItems' = shown
  /\ isProcessing' = FALSE
  /\ pc' = "done"
  /\ i' = 0
  /\ initialItems' = <<>>
  /\ processedItems' = <<>>
  /\ runJob' = [title |-> "", description |-> ""]
  /\ requests' = <<>>
  /\ \E t \in DateNow(localStorage), w1, w2 \in BOOLEAN :
       LET saved == saveSession(job, items0, localStorage, t, w1, w2)
       IN /\ localStorage' = saved.storage
          /\ saveLog' = Append(log, LogEntry(job, items0, t, saved))
          /\ historySessions' = IF Truthy(saved.ret)
                                THEN <<saved.ret>> \o historySessions
                                ELSE historySessions
  /\ UNCHANGED <<isSettingsOpen, hasApiKey, temperature>>

\* lines 147-155: after the loop; the handler returns and its locals are gone
Finish(k, items0, job, shown, processed, reqs, log) ==
  /\ batchItems' = shown
  /\ isProcessing' = FALSE
  /\ pc' = "done"
  /\ i' = 0
  /\ initialItems' = <<>>
  /\ processedItems' = <<>>
  /\ runJob' = [title |-> "", description |-> ""]
  /\ requests' = <<>>
  /\ \E t \in DateNow(localStorage), w1, w2 \in BOOLEAN :
       LET saved == saveSession(job, processed, localStorage, t, w1, w2)
       IN /\ localStorage' = saved.storage
          /\ saveLog' = Append(log, LogEntry(job, processed, t, saved))
          /\ historySessions' = IF Truthy(saved.ret)
                                THEN <<saved.ret>> \o historySessions
                                ELSE historySessions
  /\ UNCHANGED <<isSettingsOpen, hasApiKey, temperature>>

\* lines 116-123: the loop from index k up to the next await; analyzeResume
\* throws before any request when no key is stored (getAIClient)
Loop(k, items0, job, shown, processed, reqs, log) ==
  IF k > Len(items0)
  THEN Finish(k, items0, job, shown, processed, reqs, log)
  ELSE IF localStorage.gemini_api_key = ABSENT
  THEN Abort(k, items0, job, MarkAnalyzing(shown, items0[k].file.id), processed, reqs, log)
  ELSE /\ batchItems' = MarkAnalyzing(shown, items0[k].file.id)
       /\ pc' = "await"
       /\ i' = k
       /\ initialItems' = items0
       /\ processedItems' = processed
       /\ runJob' = job
       /\ requests' = Append(reqs, [file |-> items0[k].file, job |-> job])
       /\ saveLog' = log
       /\ isProcessing' = TRUE
       /\ UNCHANGED <<isSettingsOpen, hasApiKey, historySessions, localStorage, temperature>>

\* the handler returns before it has started a run
Refused ==
  /\ pc' = "refused"
  /\ saveLog' = <<>>
  /\ answer' = NoAnswer
  /\ UNCHANGED <<locals, partVars>>

\* lines 90-94: no credential flag
RefuseNoKey ==
  /\ isSettingsOpen' = TRUE
  /\ temperature' = IF isSettingsOpen THEN temperature ELSE ModalTemperature(localStorage)
  /\ Refused
  /\ UNCHANGED <<uiVars, batchItems, isProcessing, hasApiKey, historySessions,
                 localStorage>>

\* lines 96-99: no file or no description
RefuseNoInput ==
  /\ Refused
  /\ UNCHANGED <<uiVars, batchItems, isProcessing, isSettingsOpen, hasApiKey,
                 historySessions, localStorage, temperature>>

\* lines 101-123: the items are built and the loop runs up to its first await
StartRun ==
  /\ SavedHere(historySessions) < MaxHist
  /\ currentView' = "list"
  /\ LET items0 == [k \in 1..Len(files) |-> IdleItem(files[k])]
     IN Loop(1, items0, jobContext, items0, items0, <<>>, <<>>)
  /\ answer' = NoAnswer
  /\ UNCHANGED <<files, jobContext, selectedDetailId, isHistoryOpen, partVars>>

\* the handler that tests the description only
handleBatchAnalyze_anyFiles ==
  IF ~hasApiKey THEN RefuseNoKey
  ELSE IF jobContext.description = "" THEN RefuseNoInput
  ELSE StartRun

\* lines 89-123: the handler up to its return or its first await.  The locals
\* of one run are kept: a run started while another awaits the provider takes
\* its place.
handleBatchAnalyze ==
  IF ~hasApiKey THEN RefuseNoKey
  ELSE IF Len(files) = 0 \/ jobContext.description = "" THEN RefuseNoInput
  ELSE StartRun

\* the button without isProcessing in its disabled attribute
ClickAnalyze_whileProcessing ==
  /\ Front /\ currentView = "input"
  /\ IF ~hasApiKey
     THEN /\ isSettingsOpen' = TRUE
          /\ temperature' = ModalTemperature(localStorage)
          /\ Settle
          /\ UNCHANGED <<uiVars, batchItems, isProcessing, hasApiKey,
                         historySessions, localStorage>>
     ELSE /\ ~(Len(files) = 0 \/ jobContext.description = "")
          /\ handleBatchAnalyze

\* lines 297-299: the button of the input view
ClickAnalyze ==
  /\ Front /\ currentView = "input"
  /\ IF ~hasApiKey
     THEN /\ isSettingsOpen' = TRUE
          /\ temperature' = ModalTemperature(localStorage)
          /\ Settle
          /\ UNCHANGED <<uiVars, batchItems, isProcessing, hasApiKey,
                         historySessions, localStorage>>
     ELSE /\ ~(Len(files) = 0 \/ jobContext.description = "" \/ isProcessing)
          /\ handleBatchAnalyze

\* the loop reading the job context of the latest render
Respond_liveJob ==
  /\ pc = "await"
  /\ \E resp \in ProviderResponses :
       LET item == initialItems[i]
           r == analyzeResume(resp)
           newItem == IF r.ok
                      THEN [item EXCEPT !.status = "completed", !.result = r.result]
                      ELSE [file |-> item.file, status |-> "error",
                            result |-> item.result, error |-> r.message]
       IN /\ answer' = resp
          /\ Loop(i + 1, initialItems, jobContext,
                  ReplaceItem(batchItems, item.file.id, newItem),
                  [processedItems EXCEPT ![i] = newItem], requests, saveLog)
  /\ UNCHANGED <<uiVars, partVars>>

\* the catch block returning on every error
Respond_errorAborts ==
  /\ pc = "await"
  /\ \E resp \in ProviderResponses :
       LET item == initialItems[i]
           r == analyzeResume(resp)
           newItem == [item EXCEPT !.status = "completed", !.result = r.result]
       IN /\ answer' = resp
          /\ IF r.ok
             THEN Loop(i + 1, initialItems, runJob,
                       ReplaceItem(batchItems, item.file.id, newItem),
                       [processedItems EXCEPT ![i] = newItem], requests, saveLog)
             ELSE Abort(i, initialItems, runJob, batchItems, processedItems,
                        requests, saveLog)
  /\ UNCHANGED <<uiVars, partVars>>

\* lines 123-145: the provider answers the outstanding request
Respond ==
  /\ pc = "await"
  /\ \E resp \in ProviderResponses :
       LET item == initialItems[i]
           r == analyzeResume(resp)
           newItem == IF r.ok
                      THEN [item EXCEPT !.status = "completed", !.result = r.result]
                      ELSE [file |-> item.file, status |-> "error",
                            result |-> item.result, error |-> r.message]
       IN /\ answer' = resp
          /\ Loop(i + 1, initialItems, runJob,
                  ReplaceItem(batchItems, item.file.id, newItem),
                  [processedItems EXCEPT ![i] = newItem], requests, saveLog)
  /\ UNCHANGED <<uiVars, partVars>>

(* ---- the other handlers of App ---- *)
handleReset ==
  /\ Front
  /\ files' = <<>>
  /\ batchItems' = <<>>
  /\ currentView' = "input"
  /\ selectedDetailId' = NULL
  /\ Settle
  /\ UNCHANGED <<jobContext, isHistoryOpen, isProcessing, isSettingsOpen, hasApiKey,
                 historySessions, localStorage>>
  /\ UNCHANGED temperature

handleViewDetails ==
  /\ Front /\ currentView = "list"
  /\ \E k \in 1..Len(batchItems) :
       /\ batchItems[k].status = "completed"
       /\ selectedDetailId' = [id |-> batchItems[k].file.id]
  /\ currentView' = "detail"
  /\ Settle
  /\ UNCHANGED <<files, jobContext, isHistoryOpen,
                 batchItems, isProcessing, isSettingsOpen, hasApiKey, historySessions, localStorage>>
  /\ UNCHANGED temperature

\* the back button belongs to AnalysisView, rendered for a selected item that
\* has a result
handleBackToList ==
  /\ Front /\ currentView = "detail"
  /\ \E k \in 1..Len(batchItems) :
       /\ [id |-> batchItems[k].file.id] = selectedDetailId
       /\ Truthy(batchItems[k].result)
       /\ \A j \in 1..(k - 1) : [id |-> batchItems[j].file.id] # selectedDetailId
  /\ selectedDetailId' = NULL
  /\ currentView' = "list"
  /\ Settle
  /\ UNCHANGED <<files, jobContext, isHistoryOpen,
                 batchItems, isProcessing, isSettingsOpen, hasApiKey, historySessions, localStorage>>
  /\ UNCHANGED temperature

OpenHistory ==
  /\ Front
  /\ isHistoryOpen' = TRUE
  /\ Settle
  /\ UNCHANGED <<files, jobContext, currentView, selectedDetailId,
                 batchItems, isProcessing, isSettingsOpen, hasApiKey, historySessions, localStorage>>
  /\ UNCHANGED temperature

CloseHistory ==
  /\ InDrawer
  /\ isHistoryOpen' = FALSE
  /\ Settle
  /\ UNCHANGED <<files, jobContext, currentView, selectedDetailId,
                 batchItems, isProcessing, isSettingsOpen, hasApiKey, historySessions, localStorage>>
  /\ UNCHANGED temperature

\* a restore that takes the session out of the stored history
handleRestoreSession_moves ==
  /\ InDrawer
  /\ \E k \in 1..Len(historySessions) :
       LET session == historySessions[k]
           updated == deleteSession(session.id, localStorage)
       IN /\ jobContext' = [title |-> session.jobTitle,
                            description |-> session.jobDescription]
          /\ files' = [j \in 1..Len(session.items) |-> session.items[j].file]
          /\ batchItems' = session.items
          /\ localStorage' = updated.storage
          /\ historySessions' = updated.ret
  /\ currentView' = "list"
  /\ isHistoryOpen' = FALSE
  /\ Settle
  /\ UNCHANGED <<selectedDetailId, isProcessing, isSettingsOpen, hasApiKey>>
  /\ UNCHANGED temperature

handleRestoreSession ==
  /\ InDrawer
  /\ \E k \in 1..Len(historySessions) :
       LET session == historySessions[k]
       IN /\ jobContext' = [title |-> session.jobTitle,
                            description |-> session.jobDescription]
          /\ files' = [j \in 1..Len(session.items) |-> session.items[j].file]
          /\ batchItems' = session.items
  /\ currentView' = "list"
  /\ isHistoryOpen' = FALSE
  /\ Settle
  /\ UNCHANGED <<selectedDetailId, isProcessing, isSettingsOpen, hasApiKey,
                 historySessions, localStorage>>
  /\ UNCHANGED temperature

handleDeleteSession ==
  /\ InDrawer
  /\ \E k \in 1..Len(historySessions) :
       LET updated == deleteSession(historySessions[k].id, localStorage)
       IN /\ localStorage' = updated.storage
          /\ historySessions' = updated.ret
  /\ Settle
  /\ UNCHANGED <<uiVars, batchItems, isProcessing, isSettingsOpen, hasApiKey>>
  /\ UNCHANGED temperature

\* the button is shown when the drawer lists a session; the user confirms
handleClearAllHistory ==
  /\ InDrawer
  /\ Len(historySessions) > 0
  /\ localStorage' = clearHistory(localStorage)
  /\ historySessions' = <<>>
  /\ Settle
  /\ UNCHANGED <<uiVars, batchItems, isProcessing, isSettingsOpen, hasApiKey>>
  /\ UNCHANGED temperature

OpenSettings ==
  /\ Front
  /\ isSettingsOpen' = TRUE
  /\ temperature' = ModalTemperature(localStorage)
  /\ Settle
  /\ UNCHANGED <<uiVars, batchItems, isProcessing, hasApiKey, historySessions,
                 localStorage>>

\* ApiKeyModal.handleClearKey
handleClearKey ==
  /\ isSettingsOpen
  /\ localStorage.gemini_api_key # ABSENT
  /\ localStorage' = [localStorage EXCEPT !.gemini_api_key = ABSENT]
  /\ Settle
  /\ UNCHANGED <<uiVars, batchItems, isProcessing, isSettingsOpen, hasApiKey,
                 historySessions>>
  /\ UNCHANGED temperature

\* handleSettingsClose, given the storage it finds
SettingsClosed(storage) ==
  /\ isSettingsOpen' = FALSE
  /\ UNCHANGED temperature
  /\ hasApiKey' = (storage.gemini_api_key # ABSENT)
  /\ Settle
  /\ UNCHANGED <<uiVars, batchItems, isProcessing, historySessions>>

handleSettingsClose ==
  /\ isSettingsOpen
  /\ SettingsClosed(localStorage)
  /\ UNCHANGED localStorage

\* ApiKeyModal.handleSave with a blank or a non-blank key typed in
handleSave ==
  /\ isSettingsOpen
  /\ \E typed \in {"", "KEY"} :
       localStorage' = [localStorage EXCEPT
                          !.gemini_api_key =
                            IF typed # "" THEN [value |-> typed] ELSE ABSENT,
                          !.gemini_temperature = [value |-> toFixed1(temperature)]]
  /\ SettingsClosed(localStorage')

Next ==
  \/ handlePasteSubmit
  \/ handleJobChange
  \/ ClickAnalyze
  \/ Respond
  \/ handleReset
  \/ handleViewDetails
  \/ handleBackToList
  \/ OpenHistory
  \/ CloseHistory
  \/ handleRestoreSession
  \/ handleDeleteSession
  \/ handleClearAllHistory
  \/ OpenSettings
  \/ handleClearKey
  \/ handleSettingsClose
  \/ handleSave

Spec == Init /\ [][Next]_vars

\* the App without its history drawer and detail view, when every provider
\* call returns or fails in the end
NextLive ==
  \/ handlePasteSubmit
  \/ handleJobChange
  \/ ClickAnalyze
  \/ Respond
  \/ handleReset
  \/ OpenSettings
  \/ handleClearKey
  \/ handleSettingsClose
  \/ handleSave

\* no session was stored before
InitLive == Init /\ getHistory(localStorage) = <<>>

SpecLive == InitLive /\ [][NextLive]_vars /\ WF_vars(Respond)

(* ---- handleBatchAnalyze called in every state of the input view ---- *)
\* a call made while no run awaits the provider
CallBatchAnalyze == pc # "await" /\ handleBatchAnalyze

NextStart ==
  \/ handlePasteSubmit
  \/ handleJobChange
  \/ CallBatchAnalyze
  \/ Respond
  \/ OpenSettings
  \/ handleClearKey
  \/ handleSettingsClose
  \/ handleSave

SpecStart == Init /\ [][NextStart]_vars

(* ---- the history service called directly ---- *)
InitHist ==
  /\ localStorage \in {StoredAfter(n, StartTime - 1) :
                         n \in {0, MaxSessions - 1, MaxSessions}}
  /\ Mounted(localStorage)
  /\ saveLog = <<>>

HistSave ==
  /\ Len(saveLog) < MaxCalls
  /\ \E items \in ItemLists, t \in DateNow(localStorage), w1, w2 \in BOOLEAN :
       LET job == [title |-> "T1", description |-> "D1"]
           r == saveSession(job, items, localStorage, t, w1, w2)
       IN /\ localStorage' = r.storage
          /\ saveLog' = Append(saveLog, LogEntry(job, items, t, r))
  /\ callLog' = <<>>
  /\ UNCHANGED <<appVars, uploadVars>>

\* the ids deleteSession is called with: the newest stored session, the one
\* before it, and the time of a save made now
DeleteIds == {NumToString(t) : t \in {StartTime - 2, StartTime - 1, StartTime}}

\* callLog keeps the latest delete or clear
HistDelete ==
  /\ \E id \in DeleteIds :
       /\ localStorage' = deleteSession(id, localStorage).storage
       /\ callLog' = <<[op |-> "delete", id |-> id,
                        ret |-> deleteSession(id, localStorage).ret]>>
  /\ UNCHANGED <<appVars, saveLog, uploadVars>>

HistClear ==
  /\ localStorage' = clearHistory(localStorage)
  /\ callLog' = <<[op |-> "clear"]>>
  /\ UNCHANGED <<appVars, saveLog, uploadVars>>

NextHist == HistSave \/ HistDelete \/ HistClear

SpecHist == InitHist /\ [][NextHist]_vars

(* ---- the settings dialog on its own (types.ts) ---- *)
\* the values the slider's change event can carry
SliderInputs == {Num(-3), Num(5), Num(17), NaN}

\* ApiKeyModal.handleTemperatureChange
handleTemperatureChange ==
  /\ isSettingsOpen
  /\ \E value \in SliderInputs :
       temperature' = IF ~IsNaN(value) THEN MathMax(0, MathMin(10, value))
                      ELSE temperature
  /\ Settle
  /\ UNCHANGED <<uiVars, batchItems, isProcessing, isSettingsOpen, hasApiKey,
                 historySessions, localStorage>>

InitSettings ==
  /\ localStorage \in
       {[emptyStorage EXCEPT !.gemini_api_key = k, !.gemini_temperature = tt] :
          k \in {ABSENT, [value |-> "KEY"]},
          tt \in {ABSENT} \cup {[value |-> text] : text \in TempTexts}}
  /\ Mounted(localStorage)
  /\ saveLog = <<>>

NextSettings ==
  \/ OpenSettings
  \/ handleTemperatureChange
  \/ handleSave
  \/ handleSettingsClose
  \/ handleClearKey

SpecSettings == InitSettings /\ [][NextSettings]_vars

(* ---- ResumeUploader on its own: drops and selections ---- *)
\* what the browser reports of a dropped file, as far as processFiles tests it
Kinds == {"text", "pdf", "image", "other"}
RawFile(name, kind) == [name |-> name, kind |-> kind]
Supported(raw) == raw.kind # "other"

\* the lists one drop or selection can carry; a file is named by its place
RawLists ==
  UNION {{[k \in 1..n |-> RawFile(k, kinds[k])] : kinds \in [1..n -> Kinds]} :
           n \in 1..MaxDrop}

\* the entry an onload callback pushes
Decoded(id, raw) ==
  IF raw.kind = "text"
    THEN [id |-> id, type |-> "text", content |-> "c", name |-> raw.name]
    ELSE [id |-> id, type |-> raw.kind, content |-> "b64", name |-> raw.name,
          mimeType |-> raw.kind]

\* an event of the uploader while no run is in progress
UploaderEvent ==
  /\ Front /\ currentView = "input"
  /\ pc' = IF pc = "await" THEN "await" ELSE "idle"
  /\ saveLog' = <<>>
  /\ answer' = NoAnswer
  /\ UNCHANGED <<jobContext, currentView, selectedDetailId, isHistoryOpen,
                 batchItems, isProcessing, isSettingsOpen, hasApiKey, locals,
                 historySessions, temperature, localStorage, callLog>>

\* the locals of a processFiles call, which live as long as one of its readers
Pending(list, closure, pushed, count, started) ==
  /\ fileList' = IF started # {} THEN list ELSE <<>>
  /\ closureFiles' = IF started # {} THEN closure ELSE <<>>
  /\ newFiles' = IF started # {} THEN pushed ELSE <<>>
  /\ processedCount' = IF started # {} THEN count ELSE 0
  /\ readers' = started

\* processFiles, up to the end of its forEach: a reader is started for every
\* supported file and the others are counted at once; no callback has run yet,
\* so newFiles is still empty and the test of the last branch fails.  One
\* submission is decoded at a time.
processFiles ==
  /\ readers = {}
  /\ \E list \in RawLists :
       /\ Len(files) + Len(list) <= MaxFiles
       /\ Pending(list, files, <<>>,
                  Cardinality({k \in 1..Len(list) : ~Supported(list[k])}),
                  {k \in 1..Len(list) : Supported(list[k])})
  /\ UNCHANGED files
  /\ UploaderEvent

\* reader.onload of one of the started readers, in any order
onload ==
  /\ \E k \in readers, id \in generateId(files \o closureFiles \o newFiles) :
       LET pushed == Append(newFiles, Decoded(id, fileList[k]))
       IN  /\ Pending(fileList, closureFiles, pushed, processedCount + 1,
                      readers \ {k})
           /\ files' = IF processedCount + 1 = Len(fileList)
                         THEN closureFiles \o pushed
                         ELSE files
  /\ UploaderEvent

\* removeFile of a listed file
removeFile ==
  /\ \E k \in 1..Len(files) :
       files' = SelectSeq(files, LAMBDA f : f.id # files[k].id)
  /\ UNCHANGED uploadVars
  /\ UploaderEvent

InitUpload ==
  /\ localStorage = [emptyStorage EXCEPT !.gemini_api_key = [value |-> "KEY"]]
  /\ Mounted(localStorage)
  /\ saveLog = <<>>

NextUpload ==
  \/ processFiles
  \/ onload
  \/ handlePasteSubmit
  \/ removeFile

SpecUpload == InitUpload /\ [][NextUpload]_vars

(* ---- the Gemini service called directly ---- *)
\* the files the service is handed
PdfFile(id, name) ==
  [id |-> id, type |-> "pdf", content |-> "b64", name |-> name,
   mimeType |-> "application/pdf"]
SvcFiles == {TextFile(1, 1), PdfFile(2, 2)}

InitSvc ==
  /\ localStorage \in
       {[emptyStorage EXCEPT !.gemini_api_key = k, !.gemini_temperature = tt] :
          k \in {ABSENT, [value |-> "KEY"]},
          tt \in {ABSENT} \cup {[value |-> text] : text \in TempTexts}}
  /\ Mounted(localStorage)
  /\ saveLog = <<>>

SvcEntry(op, file, storage, r) ==
  [op |-> op, file |-> file, storage |-> storage, result |-> r]

SvcAnalyze ==
  /\ Len(callLog) < MaxSvcCalls
  /\ \E file \in SvcFiles, resp \in AllProviderResponses :
       callLog' = Append(callLog, SvcEntry("analyze", file, localStorage,
                    analyzeResumeCall(file, [title |-> "T1", description |-> "D1"],
                                      localStorage, resp)))
  /\ UNCHANGED <<appVars, localStorage, saveLog, uploadVars>>

SvcPlan ==
  /\ Len(callLog) < MaxSvcCalls
  /\ \E file \in SvcFiles, resp \in AllProviderResponses :
       callLog' = Append(callLog, SvcEntry("plan", file, localStorage,
                    generateInterviewPlanCall(file, [title |-> "T1", description |-> "D1"],
                                              localStorage, resp)))
  /\ UNCHANGED <<appVars, localStorage, saveLog, uploadVars>>

SvcExtract ==
  /\ Len(callLog) < MaxSvcCalls
  /\ \E file \in SvcFiles, resp \in AllProviderResponses :
       callLog' = Append(callLog, SvcEntry("extract", file, localStorage,
                    extractResumeRawTextCall(file, localStorage, resp)))
  /\ UNCHANGED <<appVars, localStorage, saveLog, uploadVars>>

NextSvc == SvcAnalyze \/ SvcPlan \/ SvcExtract

SpecSvc == InitSvc /\ [][NextSvc]_vars

(* ---- claims about the history service ---- *)
\* the step that made the latest saveSession call, and that call
SaveStep == Len(saveLog') = Len(saveLog) + 1
LastSave == saveLog[Len(saveLog)]
Stored == getHistory(localStorage)

HasCompleted(items) ==
  \E k \in 1..Len(items) : items[k].status = "completed" /\ items[k].result # NULL

\* C6: saveSession on a list in which no item is completed with a present
\* result returns null and leaves the history slot as it was.
C6_NoCompletedNoWrite ==
  [][SaveStep /\ ~HasCompleted(saveLog'[Len(saveLog')].items)
       => /\ saveLog'[Len(saveLog')].ret = NULL
          /\ localStorage' = localStorage]_vars

C6_Witness ==
  /\ saveLog # <<>>
  /\ ~HasCompleted(LastSave.items)
  /\ \E k \in 1..Len(LastSave.items) : LastSave.items[k].status = "completed"
  /\ LastSave.ret = NULL
  /\ Stored # <<>>

\* the sum and the number of the scores of the completed items with a result
RECURSIVE ScoreSum(_, _)
ScoreSum(items, k) ==
  IF k = 0 THEN 0
  ELSE ScoreSum(items, k - 1) +
       (IF items[k].status = "completed" /\ items[k].result # NULL
        THEN items[k].result.score ELSE 0)

ScoreCount(items) ==
  Cardinality({k \in 1..Len(items) :
                 items[k].status = "completed" /\ items[k].result # NULL})

\* avg is the mean sum/count rounded to the nearest integer, halves up
IsRoundedMean(avg, sum, count) ==
  /\ 2 * count * avg <= 2 * sum + count
  /\ 2 * sum + count < 2 * count * (avg + 1)

\* C7: the averageScore of a session created by saveSession is the rounded mean
\* of result.score over the items that are completed with a present result;
\* scores 80, 60, 100 give 80.
C7_AverageScore ==
  /\ \A k \in 1..Len(saveLog) :
       saveLog[k].ret # NULL =>
         IsRoundedMean(saveLog[k].ret.averageScore,
                       ScoreSum(saveLog[k].items, Len(saveLog[k].items)),
                       ScoreCount(saveLog[k].items))
  /\ averageScore(<<CompletedItem(TextFile(1, 1), [score |-> 80]),
                    CompletedItem(TextFile(2, 2), [score |-> 60]),
                    CompletedItem(TextFile(3, 3), [score |-> 100])>>) = 80

C7_Witness ==
  /\ saveLog # <<>>
  /\ LastSave.ret # NULL
  /\ Len(LastSave.items) = 2
  /\ LastSave.items[1].status = "completed" /\ LastSave.items[1].result = [score |-> 60]
  /\ LastSave.items[2].status = "completed" /\ LastSave.items[2].result = [score |-> 81]
  /\ LastSave.ret.averageScore = 71

NewestFirst(h) == \A k \in 1..(Len(h) - 1) : h[k].timestamp >= h[k + 1].timestamp

\* C8: the stored history never holds more than 20 sessions and lists them from
\* the most recently saved to the least recently saved; a successful save onto
\* 20 stored sessions leaves 20, the new one first and the oldest one gone.
C8_HistoryCapped ==
  /\ [](Len(Stored) <= MaxSessions /\ NewestFirst(Stored))
  /\ [][SaveStep /\ saveLog'[Len(saveLog')].ret # NULL /\ Len(Stored) = MaxSessions
          => LET after == getHistory(localStorage')
             IN /\ Len(after) = MaxSessions
                /\ after[1].id = saveLog'[Len(saveLog')].ret.id
                /\ \A k \in 2..MaxSessions : after[k] = Stored[k - 1]]_vars

C8_Witness ==
  /\ saveLog # <<>>
  /\ LastSave.ret # NULL
  /\ Len(Stored) = MaxSessions
  /\ Stored[1].id = LastSave.ret.id
  /\ Stored[MaxSessions].timestamp = StartTime - MaxSessions + 1

\* the stored form of a session: every property but items and headcount as in
\* the session that saveSession returned, the items with their content blanked
\* and nothing else changed
SameButContent(storedItem, item) ==
  /\ DOMAIN storedItem = DOMAIN item
  /\ \A f \in DOMAIN item \ {"file"} : storedItem[f] = item[f]
  /\ DOMAIN storedItem.file = DOMAIN item.file
  /\ \A f \in DOMAIN item.file \ {"content"} : storedItem.file[f] = item.file[f]
  /\ storedItem.file.content = ""

IsLightFormOf(storedSession, session) ==
  /\ \A f \in DOMAIN session \ {"items", "headcount"} :
       f \in DOMAIN storedSession /\ storedSession[f] = session[f]
  /\ DOMAIN storedSession \subseteq DOMAIN session
  /\ Headcount(storedSession) = Headcount(session)
  /\ Len(storedSession.items) = Len(session.items)
  /\ \A k \in 1..Len(session.items) :
       SameButContent(storedSession.items[k], session.items[k])

AllContentBlank(h) ==
  \A k \in 1..Len(h) : \A j \in 1..Len(h[k].items) : h[k].items[j].file.content = ""

\* C9 as stated: after a failed full write and a successful retry, every
\* file.content in the written data is blank.
C9_AllContentBlanked ==
  [][SaveStep /\ saveLog'[Len(saveLog')].write = "light"
       => AllContentBlank(getHistory(localStorage'))]_vars

\* C9 amended: after a failed full write and a successful retry the stored list
\* is the new session with the content of each of its items blanked and nothing
\* else changed, followed by the sessions stored before exactly as they were
\* (cut to 20 in all), and getHistory reads that list back.
C9_LightSessionStored ==
  [][SaveStep /\ saveLog'[Len(saveLog')].write = "light"
       => LET after == getHistory(localStorage')
          IN /\ after # <<>>
             /\ IsLightFormOf(after[1], saveLog'[Len(saveLog')].ret)
             /\ Tail(after) = Take(Stored, MaxSessions - 1)]_vars

C9_Witness ==
  /\ saveLog # <<>>
  /\ LastSave.write = "light"
  /\ Len(LastSave.items) = 2
  /\ LastSave.items[1].file.content # ""
  /\ LastSave.items[2].status = "error"
  /\ Len(Stored) > 1
  /\ Stored[1].items[1].file.content = ""
  /\ Stored[2].items[1].file.content # ""

\* C10: when both writes fail, what saveSession returns differs from what it
\* returns when nothing was saved because no item completed (null).
C10_FailureSurfaced ==
  \A k \in 1..Len(saveLog) : saveLog[k].write = "failed" => saveLog[k].ret # NULL

\* C11: when the full write and the retry both fail, the stored history after
\* the call is what it was before it: the same sessions in the same order.
C11_FailedSaveKeepsHistory ==
  [][SaveStep /\ saveLog'[Len(saveLog')].write = "failed"
       => /\ localStorage' = localStorage
          /\ getHistory(localStorage') = Stored]_vars

C11_Witness ==
  /\ saveLog # <<>>
  /\ LastSave.write = "failed"
  /\ LastSave.ret = NULL
  /\ HasCompleted(LastSave.items)
  /\ Len(Stored) = MaxSessions
  /\ Stored[1].timestamp = StartTime - 1

\* the steps of a direct deleteSession or clearHistory call
DeleteStep == callLog' # callLog /\ callLog' # <<>> /\ callLog'[1].op = "delete"
ClearStep == callLog' # callLog /\ callLog' # <<>> /\ callLog'[1].op = "clear"

\* the places of the sessions of h whose id is not id
Others(h, id) == {k \in 1..Len(h) : h[k].id # id}

\* C24: after deleteSession(id) no stored session has the id, the other
\* sessions are stored as they were and in the same order, and the returned
\* list is the stored one; an id that is not stored leaves the stored sessions
\* as they are.  After clearHistory no session is stored.
C24_DeleteExactlyId ==
  /\ [][DeleteStep =>
          LET id == callLog'[1].id
              before == getHistory(localStorage)
              after == getHistory(localStorage')
          IN /\ \A k \in 1..Len(after) : after[k].id # id
             /\ Len(after) = Cardinality(Others(before, id))
             /\ \A k \in Others(before, id) :
                  after[Cardinality({j \in Others(before, id) : j <= k})] = before[k]
             /\ callLog'[1].ret = after
             /\ Others(before, id) = 1..Len(before) => after = before]_vars
  /\ [][ClearStep => getHistory(localStorage') = <<>>]_vars

\* the session before the newest was deleted from a full history
C24_Witness ==
  /\ callLog # <<>> /\ callLog[1].op = "delete"
  /\ callLog[1].id = NumToString(StartTime - 2)
  /\ Len(Stored) = MaxSessions - 1
  /\ Stored[1].id = NumToString(StartTime - 1)
  /\ Stored[2].id = NumToString(StartTime - 3)
  /\ callLog[1].ret = Stored

(* ---- claims about the batch run ---- *)
\* the steps of handleBatchAnalyze: its start, and its resumption when the
\* provider answers the request for item i
StartStep == pc # "await" /\ pc' = "await"
RespondStep == pc = "await" /\ processedItems' # processedItems
Terminal(item) == item.status \in {"completed", "error"}
Analyzing(items) == {k \in 1..Len(items) : items[k].status = "analyzing"}

\* C1: when a run stops the displayed list holds one item per input file, in
\* input order, each completed or error, or idle after the item that met the
\* missing key; none is analyzing.
C1_RunEndsWithItemPerFile ==
  [][isProcessing /\ ~isProcessing'
       => /\ Len(batchItems') = Len(initialItems)
          /\ \A k \in 1..Len(initialItems) :
               /\ batchItems'[k].file = initialItems[k].file
               /\ \/ Terminal(batchItems'[k])
                  \/ batchItems'[k].status = "idle" /\ pc' = "aborted" /\ k > i + 1]_vars

\* C2: at most one displayed item is analyzing, and the request for item i is
\* the i-th request of the run, issued when every item before it is completed
\* or error.
C2_OneAtATime ==
  /\ Cardinality(Analyzing(batchItems)) <= 1
  /\ pc = "await" =>
       /\ Len(requests) = i
       /\ \A j \in 1..i : requests[j].file = initialItems[j].file
       /\ \A j \in 1..(i - 1) : Terminal(processedItems[j])

\* C3: when the request for item i has been answered and no key is stored for
\* item i+1, the run returns at once: nothing is requested for item i+1 or any
\* later item, every displayed item after item i+1 is idle, isProcessing is
\* false, the settings dialog is open and hasApiKey is false.  Outside a run no
\* request is outstanding.
C3_MissingKeyHalts ==
  /\ [][RespondStep /\ i < Len(initialItems) /\ localStorage.gemini_api_key = ABSENT
          => /\ pc' = "aborted"
             /\ ~isProcessing' /\ isSettingsOpen' /\ ~hasApiKey'
             /\ requests' = <<>>
             /\ \A p \in (i + 2)..Len(batchItems') : batchItems'[p].status = "idle"]_vars
  /\ [](pc # "await" => requests = <<>> /\ ~isProcessing)

\* C4: no step of a run other than the one that answers its last item calls
\* saveSession or changes the stored history or the listed sessions; so a run
\* that the missing key aborts leaves both as they were.
C4_AbortNeverSaves ==
  [][StartStep \/ (RespondStep /\ i < Len(initialItems))
       => /\ saveLog' = <<>>
          /\ localStorage'.resume_ai_history_v1 = localStorage.resume_ai_history_v1
          /\ historySessions' = historySessions]_vars

C4_Witness ==
  /\ pc = "aborted"
  /\ Len(batchItems) > 1
  /\ batchItems[1].status = "completed" /\ batchItems[1].result # NULL
  /\ historySessions = <<>>
  /\ localStorage.resume_ai_history_v1 = ABSENT

\* what the step answering the last item hands to saveSession
FinalCall(entry) ==
  /\ entry.job = runJob
  /\ Len(entry.items) = Len(initialItems)
  /\ \A k \in 1..Len(initialItems) :
       /\ entry.items[k].file = initialItems[k].file
       /\ Terminal(entry.items[k])
       /\ k < i => entry.items[k] = processedItems[k]

\* C5 as stated: normal completion calls saveSession once with the final items
\* and the job, and a session is persisted exactly if some item is completed.
C5_SavedIffCompleted ==
  [][RespondStep /\ i = Len(initialItems)
       => /\ pc' = "done" /\ ~isProcessing'
          /\ Len(saveLog') = 1
          /\ FinalCall(saveLog'[1])
          /\ (localStorage' # localStorage
                <=> \E k \in 1..Len(saveLog'[1].items) :
                      saveLog'[1].items[k].status = "completed")]_vars

\* C5 amended: normal completion calls saveSession once with the final items
\* and the job, and a session is persisted exactly if some item is completed
\* with a result that is not null and one of the two storage writes succeeds.
C5_SavedIffCompletedAndWritten ==
  [][RespondStep /\ i = Len(initialItems)
       => /\ pc' = "done" /\ ~isProcessing'
          /\ Len(saveLog') = 1
          /\ FinalCall(saveLog'[1])
          /\ (localStorage' # localStorage
                <=> HasCompleted(saveLog'[1].items) /\ saveLog'[1].write # "failed")]_vars

C5_Witness ==
  /\ pc = "done"
  /\ Len(saveLog) = 1
  /\ Len(saveLog[1].items) = 2
  /\ saveLog[1].items[1].status = "error"
  /\ saveLog[1].items[2].status = "completed"
  /\ saveLog[1].write = "full"
  /\ Len(getHistory(localStorage)) = 1
  /\ historySessions = <<saveLog[1].ret>>

\* analysisSchema, as far as the payloads are modelled: an object with an
\* integer score from 0 to 100
Conforms(v) == v # NULL /\ "score" \in DOMAIN v /\ v.score \in 0..100

\* C14: a displayed item that is completed carries a result that conforms to
\* the analysis schema: analyzeResume fails on every other payload.
C14_OnlyConformingResults ==
  \A k \in 1..Len(batchItems) :
    batchItems[k].status = "completed" => Conforms(batchItems[k].result)

\* the provider call failed, or its payload was empty or not JSON
Fails(resp) == resp.kind \in {"throws", "empty", "invalid"}

\* an item on which a failure is recorded
ErrorRecorded(item, file) ==
  /\ item.file = file
  /\ item.status = "error"
  /\ "error" \in DOMAIN item
  /\ item.error \in {PROVIDER_ERROR, NO_TEXT, SYNTAX_ERROR}
  /\ item.result = NULL

\* the step answers item i with a failure and records it on item i of the
\* run's list
FailureRecorded ==
  /\ pc' = "await" => ErrorRecorded(processedItems'[i], initialItems[i].file)
  /\ pc' = "done" =>
       /\ Len(saveLog') = 1 /\ Len(saveLog'[1].items) = Len(initialItems)
       /\ ErrorRecorded(saveLog'[1].items[i], initialItems[i].file)

\* C15 as stated: a failure on item i is recorded on it and the run does not
\* abort: it goes on to item i+1, or completes when i is the last item.
C15_ErrorsNeverAbort ==
  [][RespondStep /\ Fails(answer')
       => /\ FailureRecorded
          /\ pc' # "aborted"
          /\ i < Len(initialItems) =>
               /\ pc' = "await" /\ i' = i + 1
               /\ requests' = Append(requests, [file |-> initialItems[i + 1].file,
                                                job |-> runJob])
          /\ i = Len(initialItems) => pc' = "done"]_vars

\* C15 amended: a failure on item i is recorded on it and does not itself
\* abort the run: when a key is stored the run goes on to item i+1, or completes
\* when i is the last item; it aborts only when no key is stored for item i+1.
C15_ErrorsDoNotAbort ==
  [][RespondStep /\ Fails(answer')
       => /\ FailureRecorded
          /\ pc' = "aborted" => i < Len(initialItems) /\ localStorage.gemini_api_key = ABSENT
          /\ i < Len(initialItems) /\ localStorage.gemini_api_key # ABSENT =>
               /\ pc' = "await" /\ i' = i + 1
               /\ requests' = Append(requests, [file |-> initialItems[i + 1].file,
                                                job |-> runJob])
          /\ i = Len(initialItems) => pc' = "done"]_vars

C15_Witness ==
  /\ pc = "await"
  /\ answer = [kind |-> "throws"]
  /\ i = 2
  /\ Len(processedItems) = 3
  /\ processedItems[1].status = "error" /\ processedItems[1].error = PROVIDER_ERROR
  /\ processedItems[2].status = "idle"
  /\ Len(requests) = 2

\* C16: the run works on the job context as it was at the click: its first
\* request carries it, every later request and the saveSession call carry the
\* same one, the session created has its title and description, and no event
\* during the run changes the one the run holds.
C16_JobSnapshot ==
  /\ [][StartStep => runJob' = jobContext /\ requests'[1].job = jobContext]_vars
  /\ [][pc = "await" /\ pc' = "await" => runJob' = runJob]_vars
  /\ [](pc = "await" => \A n \in 1..Len(requests) : requests[n].job = runJob)
  /\ [][RespondStep /\ pc' = "done"
          => /\ Len(saveLog') = 1
             /\ saveLog'[1].job = runJob
             /\ saveLog'[1].ret # NULL =>
                  /\ saveLog'[1].ret.jobTitle = runJob.title
                  /\ saveLog'[1].ret.jobDescription = runJob.description
                  /\ getHistory(localStorage')[1].jobTitle = runJob.title
                  /\ getHistory(localStorage')[1].jobDescription = runJob.description]_vars

C16_Witness ==
  /\ pc = "done"
  /\ Len(saveLog) = 1
  /\ saveLog[1].ret # NULL
  /\ saveLog[1].ret.jobTitle # jobContext.title
  /\ Len(saveLog[1].items) = 2
  /\ getHistory(localStorage)[1].jobTitle = saveLog[1].job.title

\* the step puts a listed session on screen
RestoreStep ==
  /\ InDrawer /\ ~isHistoryOpen'
  /\ \E k \in 1..Len(historySessions) :
       /\ batchItems' = historySessions[k].items
       /\ jobContext' = [title |-> historySessions[k].jobTitle,
                         description |-> historySessions[k].jobDescription]

\* the sessions stored before the step are stored after it as they were and
\* in the same order, behind at most one new session (the cap of 20 drops the
\* oldest one then)
StoredKept ==
  \/ getHistory(localStorage') = Stored
  \/ /\ getHistory(localStorage') # <<>>
     /\ Tail(getHistory(localStorage')) = Take(Stored, MaxSessions - 1)

\* C17: a restore leaves the stored history and the listed sessions as they
\* were, and no step other than a click in the history drawer (delete, clear
\* all) changes a stored session: not a reset, not an edit, and not a batch
\* run, which only puts its own session in front of the stored ones.
C17_RestoreKeepsStored ==
  /\ [][RestoreStep => localStorage' = localStorage /\ historySessions' = historySessions]_vars
  /\ [][RespondStep \/ StartStep \/ ~InDrawer => StoredKept]_vars

C17_Witness ==
  /\ pc = "await" /\ i = 1
  /\ Len(Stored) = 1
  /\ batchItems = Stored[1].items
  /\ batchItems[1].status = "completed"
  /\ files = <<Stored[1].items[1].file>>
  /\ currentView = "list"

(* ---- claims about the Gemini service ---- *)
\* C12: extractResumeRawText on a text file returns the file's content and sends
\* no request, whether or not a key is stored.
C12_TextPassthrough ==
  \A n \in 1..Len(callLog) :
    callLog[n].op = "extract" /\ callLog[n].file.type = "text"
      => /\ callLog[n].result.ok
         /\ callLog[n].result.value = callLog[n].file.content
         /\ callLog[n].result.sent = <<>>

\* C13: with no key stored, analyzeResume, generateInterviewPlan and
\* extractResumeRawText on a file that is not text fail with API_KEY_MISSING and
\* send no request; no call sends a request without a stored key.
C13_KeyCheckedFirst ==
  \A n \in 1..Len(callLog) :
    LET call == callLog[n]
    IN /\ ~StoredTruthy(call.storage.gemini_api_key)
            /\ (call.op \in {"analyze", "plan"} \/ call.file.type # "text")
          => /\ ~call.result.ok
             /\ call.result.message = API_KEY_MISSING
             /\ call.result.sent = <<>>
       /\ call.result.sent # <<>> => StoredTruthy(call.storage.gemini_api_key)

C13_Witness ==
  /\ Len(callLog) = 2
  /\ localStorage.gemini_api_key = ABSENT
  /\ callLog[1].op = "plan" /\ ~callLog[1].result.ok
  /\ callLog[2].op = "extract" /\ callLog[2].file.type = "pdf"
  /\ callLog[2].result = KeyMissing

\* C19: the temperature a request carries is a number from 0 to 1, and is 0.4
\* when the stored entry is missing or is not the text of a number.
C19_TemperatureRead ==
  \A n \in 1..Len(callLog) : \A m \in 1..Len(callLog[n].result.sent) :
    LET sentT == callLog[n].result.sent[m].temperature
        entry == callLog[n].storage.gemini_temperature
    IN /\ ~IsNaN(sentT)
       /\ sentT.tenths \in 0..10
       /\ (entry = ABSENT \/ IsNaN(parseFloat(entry.value))) => sentT = Num(4)

(* ---- claims about the settings dialog ---- *)
\* the text of a number from 0.0 to 1.0
InRangeText(entry) == \E k \in 0..10 : entry = [value |-> DecimalText(k)]

\* C18: every temperature the dialog writes to storage is the text of a number
\* from 0.0 to 1.0; a slider input of 1.7 is persisted as 1.0 and one of -0.3
\* as 0.0.
C18_TemperaturePersisted ==
  /\ [][localStorage'.gemini_temperature # localStorage.gemini_temperature
          => InRangeText(localStorage'.gemini_temperature)]_vars
  /\ [](toFixed1(MathMax(0, MathMin(10, Num(17)))) = "1.0"
        /\ toFixed1(MathMax(0, MathMin(10, Num(-3)))) = "0.0")

(* ---- claims about the uploader ---- *)
\* the callback that finishes a submission and hands the list to the App
LastOnload == readers # {} /\ readers' = {}

\* the entries the finished submission added behind the list it started from
Appended == SubSeq(files', Len(closureFiles) + 1, Len(files'))

\* C20: the files a submission appends to the candidate list stand in the order
\* in which they were submitted, whatever order their onload callbacks ran in.
C20_SubmissionOrder ==
  [][LastOnload =>
       \A a, b \in 1..Len(Appended) :
          a < b => Appended[a].name < Appended[b].name]_vars

(* ---- claims about the displayed items during a run ---- *)
\* C21: while a run is in progress the displayed list keeps one item for every
\* input file of the run, in input order, whatever the user does meanwhile.
C21_ItemsKeptDuringRun ==
  isProcessing =>
    /\ Len(batchItems) = Len(initialItems)
    /\ \A k \in 1..Len(initialItems) : batchItems[k].file = initialItems[k].file

\* the item the loop shows for a file once the provider has answered
Outcome(file, resp) ==
  IF analyzeResume(resp).ok
    THEN CompletedItem(file, analyzeResume(resp).result)
    ELSE ErrorItem(file, analyzeResume(resp).message)

\* C22: the start of a run shows every file idle but the first, which is
\* analyzing; the step that answers item i turns that displayed item from
\* analyzing to completed or error with the answer's outcome and the next item
\* from idle to analyzing, before the next request is awaited, and changes no
\* other displayed item.
C22_StatusSteps ==
  [][/\ StartStep =>
          /\ Len(batchItems') = Len(files)
          /\ \A k \in 1..Len(files) :
               batchItems'[k] = IF k = 1 THEN AnalyzingItem(files[k])
                                ELSE IdleItem(files[k])
     /\ RespondStep =>
          /\ Len(batchItems) = Len(initialItems)
          /\ Len(batchItems') = Len(initialItems)
          /\ \A k \in 1..Len(initialItems) :
               /\ k < i => Terminal(batchItems[k]) /\ batchItems'[k] = batchItems[k]
               /\ k = i => /\ batchItems[k] = AnalyzingItem(initialItems[k].file)
                           /\ batchItems'[k] = Outcome(initialItems[k].file, answer')
               /\ k = i + 1 => /\ batchItems[k] = IdleItem(initialItems[k].file)
                               /\ batchItems'[k] = AnalyzingItem(initialItems[k].file)
               /\ k > i + 1 => /\ batchItems[k] = IdleItem(initialItems[k].file)
                               /\ batchItems'[k] = batchItems[k]]_vars

\* C23: the files of the displayed batch items have pairwise distinct ids.
C23_DistinctIds ==
  \A a, b \in 1..Len(batchItems) :
     a # b => batchItems[a].file.id # batchItems[b].file.id

(* ---- claims about the start of a run ---- *)
\* C25: a call of handleBatchAnalyze starts a run only with the credential
\* flag set, a file in the list and a non-empty description; a call that
\* returns early issues no request and leaves the batch items, isProcessing,
\* the stored history and the listed sessions as they were.
C25_NoRunWithoutInputs ==
  /\ [][pc # "await" /\ pc' \in {"await", "aborted", "done"}
          => hasApiKey /\ Len(files) > 0 /\ jobContext.description # ""]_vars
  /\ [][pc' = "refused" /\ pc # "refused"
          => /\ ~hasApiKey \/ Len(files) = 0 \/ jobContext.description = ""
             /\ requests' = <<>>
             /\ batchItems' = batchItems
             /\ isProcessing' = isProcessing
             /\ localStorage' = localStorage
             /\ historySessions' = historySessions]_vars

\* a call with the flag set and a file listed but no description has returned
C25_Witness ==
  /\ pc = "refused"
  /\ hasApiKey /\ Len(files) > 0 /\ jobContext.description = ""
  /\ ~isProcessing /\ batchItems = <<>>

(* ---- claims about the listed sessions ---- *)
\* two sessions with the same values in every field
SameSession(a, b) ==
  /\ a.id = b.id /\ a.timestamp = b.timestamp
  /\ a.jobTitle = b.jobTitle /\ a.jobDescription = b.jobDescription
  /\ Headcount(a) = Headcount(b)
  /\ a.items = b.items
  /\ a.totalCandidates = b.totalCandidates /\ a.averageScore = b.averageScore

SameSessions(listed, stored) ==
  /\ Len(listed) = Len(stored)
  /\ \A k \in 1..Len(listed) : SameSession(listed[k], stored[k])

\* a step of the App that calls saveSession, or changes the stored history or
\* the listed sessions
HistoryStep ==
  \/ saveLog' # <<>>
  \/ localStorage'.resume_ai_history_v1 # localStorage.resume_ai_history_v1
  \/ historySessions' # historySessions

\* C26: after every save, delete and clear-all of the App the sessions listed
\* in the drawer are the sessions read back from storage: same length, same
\* order, same field values.
C26_ListedIsStored ==
  [][HistoryStep => SameSessions(historySessions', getHistory(localStorage'))]_vars

(* ---- claims about the end of a run ---- *)
\* C27: isProcessing is true exactly while a run awaits the provider; the step
\* that ends a run, after its last item or on the missing key, leaves
\* isProcessing false; and when every provider call returns or fails, every
\* run in progress stops.
C27_RunStops ==
  /\ [](isProcessing <=> pc = "await")
  /\ [][pc = "await" /\ pc' # "await"
          => pc' \in {"done", "aborted"} /\ ~isProcessing']_vars
  /\ (isProcessing ~> ~isProcessing)

\* a run of two files stopped on the missing key
C27_Witness ==
  /\ pc = "aborted" /\ ~isProcessing
  /\ Len(batchItems) = 2
  /\ Terminal(batchItems[1])

\* the places of the supported files of the submission being decoded
SupportedPlaces == {k \in 1..Len(fileList) : Supported(fileList[k])}

\* C28: when the last decode of a submission finishes, the candidate list is
\* the list as it stood at that moment followed by one entry for each supported
\* file of the submission.
C28_NoEntryLost ==
  [][LastOnload =>
       /\ Len(files') = Len(files) + Cardinality(SupportedPlaces)
       /\ SubSeq(files', 1, Len(files)) = files
       /\ \A k \in SupportedPlaces :
            Cardinality({j \in (Len(files) + 1)..Len(files') :
                           files'[j].name = fileList[k].name}) = 1]_vars

\* a step of handleBatchAnalyze that builds the items of a run: the only step
\* that leaves the input view with the drawer closed
RunBegins == ~isHistoryOpen /\ currentView = "input" /\ currentView' = "list"

\* C29: no run begins while isProcessing is true or while another run awaits
\* the provider, and isProcessing is true whenever a run awaits the provider.
C29_OneRunAtATime ==
  /\ [][RunBegins => ~isProcessing /\ pc # "await"]_vars
  /\ [](pc = "await" => isProcessing)

\* a reset during a run, files added since: the button is all that keeps a
\* second run from starting
C29_Witness ==
  /\ pc = "await" /\ isProcessing
  /\ Front /\ currentView = "input"
  /\ hasApiKey /\ Len(files) > 0 /\ jobContext.description # ""
  /\ batchItems = <<>>

(* ---- claims about the shape of the items ---- *)
\* status, result and error message agree
WellFormed(item) ==
  /\ item.status = "completed" <=> Truthy(item.result)
  /\ item.status = "error" =>
       "error" \in DOMAIN item /\ item.error # "" /\ ~Truthy(item.result)
  /\ item.status \in {"idle", "analyzing"} =>
       ~Truthy(item.result) /\ "error" \notin DOMAIN item

\* C30: during a run and when it has stopped, every displayed item is
\* completed exactly if it has a result, has a message and no result if it is
\* error, and has neither if it is idle or analyzing; so has every item handed
\* to saveSession.
C30_ItemsWellFormed ==
  /\ isProcessing \/ pc \in {"done", "aborted"} =>
       \A k \in 1..Len(batchItems) : WellFormed(batchItems[k])
  /\ \A n \in 1..Len(saveLog) : \A k \in 1..Len(saveLog[n].items) :
       WellFormed(saveLog[n].items[k])

====
